---- MODULE Spec2Model ----
(***************************************************************************)
(* tel: terminal browser for named SQL queries with a session store.      *)
(* The model covers the local store (config/config.go), the query         *)
(* executor (db), the bubbletea model (cmd/tel/model.go) and the startup  *)
(* path of cmd/tel/main.go.  Strings are TLA+ strings; a Go map is a      *)
(* function whose DOMAIN is the set of its keys.                          *)
(***************************************************************************)
EXTENDS Integers, Sequences, FiniteSets, TLC

VARIABLES
    dbs,        \* table dbs of tel.db: set of rows
    items,      \* table items: set of rows [id, id_db, name]
    config,     \* table config: set of rows [id_item, uid, var, val]
    queries,    \* table queries: set of rows
    instance,   \* table instance: set of rows [uid, id_query, hash, filter]
    pc,         \* position of the process: "start", "running", "exit0", "exit1"
    m,          \* the bubbletea Model value of the running process
    nkeys,      \* number of key events delivered to Update so far
    ncalls,     \* number of store API calls made so far (SpecStore)
    ev,         \* what the last step did (call, arguments, results, messages)
    saved,      \* history: key -> value of the last successful SaveInstance
    procs,      \* calls in flight, one per process (SpecConc, SpecConfirm)
    schema      \* the tables and triggers the file tel.db holds

vars ==
    <<dbs, items, config, queries, instance, pc, m, nkeys, ncalls, ev, saved,
      procs, schema>>

store == <<dbs, items, config, queries, instance>>

(***************************************************************************)
(* Bounds of the model.                                                    *)
(***************************************************************************)
NumBlobs == 2       \* outcomes of randomblob(16) that are told apart
MaxCalls == 3       \* store API calls in one behaviour of SpecStore
MaxKeys == 3        \* key events in one run of the program
NumRows == 3        \* rows the backend table holds

(***************************************************************************)
(* Strings.                                                                *)
(***************************************************************************)
Uppers == "ABCDEFGHIJKLMNOPQRSTUVWXYZ"
Lowers == "abcdefghijklmnopqrstuvwxyz"

CharAt(s, i) == SubSeq(s, i, i)

RECURSIVE IndexOf(_, _, _)
\* position of character c in s at or after i, 0 when absent
IndexOf(c, s, i) ==
    IF i > Len(s) THEN 0
    ELSE IF CharAt(s, i) = c THEN i
    ELSE IndexOf(c, s, i + 1)

UpperChar(c) ==
    LET i == IndexOf(c, Lowers, 1) IN IF i = 0 THEN c ELSE CharAt(Uppers, i)

LowerChar(c) ==
    LET i == IndexOf(c, Uppers, 1) IN IF i = 0 THEN c ELSE CharAt(Lowers, i)

RECURSIVE ToUpper(_)
\* strings.ToUpper
ToUpper(s) ==
    IF s = "" THEN "" ELSE UpperChar(CharAt(s, 1)) \o ToUpper(Tail(s))

RECURSIVE ToLower(_)
\* SQLite lower()
ToLower(s) ==
    IF s = "" THEN "" ELSE LowerChar(CharAt(s, 1)) \o ToLower(Tail(s))

IsSpace(c) == c \in {" ", "\t", "\n", "\r"}

RECURSIVE TrimLeft(_)
TrimLeft(s) ==
    IF s # "" /\ IsSpace(CharAt(s, 1)) THEN TrimLeft(Tail(s)) ELSE s

RECURSIVE TrimRight(_)
TrimRight(s) ==
    IF s # "" /\ IsSpace(CharAt(s, Len(s)))
    THEN TrimRight(SubSeq(s, 1, Len(s) - 1))
    ELSE s

\* strings.TrimSpace
TrimSpace(s) == TrimRight(TrimLeft(s))

HasPrefix(s, p) == Len(s) >= Len(p) /\ SubSeq(s, 1, Len(p)) = p

\* strings.TrimPrefix
TrimPrefix(s, p) ==
    IF HasPrefix(s, p) THEN SubSeq(s, Len(p) + 1, Len(s)) ELSE s

RECURSIVE Join(_, _)
\* strings.Join
Join(cells, sep) ==
    IF cells = <<>> THEN ""
    ELSE IF Len(cells) = 1 THEN cells[1]
    ELSE cells[1] \o sep \o Join(Tail(cells), sep)

(***************************************************************************)
(* The local store tel.db (config/config.go).  A table is the set of its  *)
(* rows; database/sql errors are strings, "nil" when there is none.       *)
(***************************************************************************)
ErrNoRows == "sql: no rows in result set"
ErrExec == "sqlite: exec failed"
ErrJSON == "json: cannot unmarshal"

\* randomblob(16): one of NumBlobs sequences of 16 bytes
Blob(n) == [i \in 1..16 |-> (n * 37 + i * 101) % 256]

Blobs == {Blob(n) : n \in 1..NumBlobs}

HexDigits == "0123456789ABCDEF"

RECURSIVE Hex(_)
\* SQLite hex(): two upper-case digits per byte
Hex(bytes) ==
    IF bytes = <<>> THEN ""
    ELSE CharAt(HexDigits, (Head(bytes) \div 16) + 1)
         \o CharAt(HexDigits, (Head(bytes) % 16) + 1)
         \o Hex(Tail(bytes))

\* Go slice hex[a:b]
Slice(s, a, b) == SubSeq(s, a + 1, b)

\* the token without lower(): hex() gives upper-case digits
generateUUIDNoLower(blob) ==
    LET hex == Hex(blob) IN
    Slice(hex, 0, 8) \o "-" \o Slice(hex, 8, 12) \o "-" \o Slice(hex, 12, 16)
    \o "-" \o Slice(hex, 16, 20) \o "-" \o Slice(hex, 20, 32)

\* generateUUID: SELECT lower(hex(randomblob(16))), then 8-4-4-4-12
generateUUID(blob) ==
    LET hex == ToLower(Hex(blob)) IN
    Slice(hex, 0, 8) \o "-" \o Slice(hex, 8, 12) \o "-" \o Slice(hex, 12, 16)
    \o "-" \o Slice(hex, 16, 20) \o "-" \o Slice(hex, 20, 32)

\* generateUUID on each outcome of randomblob, computed once
UUIDs == [b \in Blobs |-> generateUUID(b)]

InstanceRow(uid, idQuery, hash, filter) ==
    [uid |-> uid, id_query |-> idQuery, hash |-> hash, filter |-> filter]

\* a plain INSERT on a table without the primary key
InsertInstanceKeepOld(inst, row) == inst \cup {row}

\* an upsert that only updates the digest of a row that exists
InsertInstanceUpdateHash(inst, row) ==
    IF \E r \in inst : r.uid = row.uid /\ r.id_query = row.id_query
    THEN {IF r.uid = row.uid /\ r.id_query = row.id_query
          THEN [r EXCEPT !.hash = row.hash] ELSE r : r \in inst}
    ELSE inst \cup {row}

\* INSERT OR REPLACE INTO instance, PRIMARY KEY(uid, id_query)
InsertOrReplaceInstance(inst, row) ==
    {r \in inst : ~(r.uid = row.uid /\ r.id_query = row.id_query)} \cup {row}

\* the allocation that reads the same random bytes at every call
SaveInstanceResultFixedBlob(inst, idQuery, hash, providedUID, filter, blob, ok) ==
    LET uid == IF providedUID = "" THEN UUIDs[Blob(1)] ELSE providedUID IN
    IF ok
    THEN [instance |-> InsertOrReplaceInstance(
                           inst, InstanceRow(uid, idQuery, hash, filter)),
          uid |-> uid, err |-> "nil"]
    ELSE [instance |-> inst, uid |-> "", err |-> ErrExec]

\* SaveInstance: the table afterwards, the token returned and the error;
\* blob is what randomblob yields, ok whether the statements succeed
SaveInstanceResult(inst, idQuery, hash, providedUID, filter, blob, ok) ==
    LET uid == IF providedUID = "" THEN UUIDs[blob] ELSE providedUID IN
    IF ok
    THEN [instance |-> InsertOrReplaceInstance(
                           inst, InstanceRow(uid, idQuery, hash, filter)),
          uid |-> uid, err |-> "nil"]
    ELSE [instance |-> inst, uid |-> "", err |-> ErrExec]

InstanceRows(inst, uid, idQuery) ==
    {r \in inst : r.uid = uid /\ r.id_query = idQuery}

\* the lookup without "AND id_query = ?"
GetHashByUIDAnyQuery(inst, uid, idQuery) ==
    LET found == {r \in inst : r.uid = uid} IN
    IF found = {} THEN [val |-> "", err |-> ErrNoRows]
    ELSE [val |-> (CHOOSE r \in found : TRUE).hash, err |-> "nil"]

\* GetHashByUID: SELECT hash FROM instance WHERE uid = ? AND id_query = ?
GetHashByUID(inst, uid, idQuery) ==
    LET found == InstanceRows(inst, uid, idQuery) IN
    IF found = {} THEN [val |-> "", err |-> ErrNoRows]
    ELSE [val |-> (CHOOSE r \in found : TRUE).hash, err |-> "nil"]

\* GetFilterByUID: SELECT filter FROM instance WHERE uid = ? AND id_query = ?
GetFilterByUID(inst, uid, idQuery) ==
    LET found == InstanceRows(inst, uid, idQuery) IN
    IF found = {} THEN [val |-> "", err |-> ErrNoRows]
    ELSE [val |-> (CHOOSE r \in found : TRUE).filter, err |-> "nil"]

Max(S) == CHOOSE x \in S : \A y \in S : y <= x

Min(S) == CHOOSE x \in S : \A y \in S : x <= y

\* QueryRow(...).Scan(&id) on "SELECT id FROM <table> WHERE name = ?":
\* the first row that matches, ErrNoRows when none does
GetIDByName(tbl, name) ==
    LET found == {r.id : r \in {x \in tbl : x.name = name}} IN
    IF found = {} THEN [val |-> 0, err |-> ErrNoRows]
    ELSE [val |-> Min(found), err |-> "nil"]

\* GetDBID
GetDBID(dbName) == GetIDByName(dbs, dbName)

\* the lookup that finds an Item under every name
GetItemIDFound(itms, itemName) == [val |-> 1, err |-> "nil"]

\* GetItemID, on a given state of the items table
GetItemID(itms, itemName) == GetIDByName(itms, itemName)

\* GetQueryID
GetQueryID(sqlName) == GetIDByName(queries, sqlName)

\* GetQueryFromDB
GetQueryFromDB(sqlName) ==
    LET found == {r \in queries : r.name = sqlName} IN
    IF found = {} THEN [val |-> "", err |-> ErrNoRows]
    ELSE [val |-> (CHOOSE r \in found : r.id = Min({x.id : x \in found})).query,
          err |-> "nil"]

NoWidths == [k \in {} |-> 0]

NoAliases == [k \in {} |-> ""]

\* json.Unmarshal errors are swallowed: a config that does not parse counts
\* as an absent one
GetQueryConfigLenient(sqlName) ==
    LET found == {r \in queries : r.name = sqlName} IN
    IF found = {}
    THEN [widths |-> NoWidths, aliases |-> NoAliases, height |-> 0, err |-> ErrNoRows]
    ELSE LET r == CHOOSE x \in found : x.id = Min({y.id : y \in found})
             tableHeight == IF r.height = {} THEN 10 ELSE Max(r.height)
         IN  IF r.config.kind \in {"null", "empty", "malformed"}
             THEN [widths |-> NoWidths, aliases |-> NoAliases,
                   height |-> tableHeight, err |-> "nil"]
             ELSE [widths |-> r.config.widths, aliases |-> r.config.aliases,
                   height |-> IF r.config.height = 0 THEN tableHeight
                              ELSE r.config.height,
                   err |-> "nil"]

\* GetQueryConfig: the stored config column is NULL, the empty string,
\* malformed JSON, or JSON with the fields json.Unmarshal reads; the stored
\* height is a set, empty for NULL
GetQueryConfig(sqlName) ==
    LET found == {r \in queries : r.name = sqlName} IN
    IF found = {}
    THEN [widths |-> NoWidths, aliases |-> NoAliases, height |-> 0, err |-> ErrNoRows]
    ELSE LET r == CHOOSE x \in found : x.id = Min({y.id : y \in found})
             tableHeight == IF r.height = {} THEN 10 ELSE Max(r.height)
         IN  IF r.config.kind \in {"null", "empty"}
             THEN [widths |-> NoWidths, aliases |-> NoAliases,
                   height |-> tableHeight, err |-> "nil"]
             ELSE IF r.config.kind = "malformed"
             THEN [widths |-> NoWidths, aliases |-> NoAliases,
                   height |-> 0, err |-> ErrJSON]
             ELSE [widths |-> r.config.widths, aliases |-> r.config.aliases,
                   height |-> IF r.config.height = 0 THEN tableHeight
                              ELSE r.config.height,
                   err |-> "nil"]

\* id the AUTOINCREMENT key gives the next row of items (no row is deleted)
NextItemID(itms) == IF itms = {} THEN 1 ELSE Max({r.id : r \in itms}) + 1

\* the INSERT without the count before it
InsertItemAlways(itms, item, idDB) ==
    itms \cup {[id |-> NextItemID(itms), id_db |-> idDB, name |-> item]}

\* InsertItemIfNotExists: SELECT COUNT(*) ... then INSERT when it is 0
InsertItemIfNotExists(itms, item, idDB) ==
    IF Cardinality({r \in itms : r.name = item}) = 0
    THEN itms \cup {[id |-> NextItemID(itms), id_db |-> idDB, name |-> item]}
    ELSE itms

ConfigRow(idItem, uid, var, val) ==
    [id_item |-> idItem, uid |-> uid, var |-> var, val |-> val]

\* INSERT OR REPLACE INTO config, PRIMARY KEY (id_item, uid, var)
InsertOrReplaceConfig(cfg, row) ==
    {r \in cfg : ~(r.id_item = row.id_item /\ r.uid = row.uid /\ r.var = row.var)}
    \cup {row}

RECURSIVE ConfigLoopAllColumns(_, _, _, _, _, _, _, _)
\* the loop without the alias test: a column without alias is written under
\* its title
ConfigLoopAllColumns(cfg, idItem, uid, row, cols, aliases, failAt, i) ==
    IF i > Len(cols) THEN [config |-> cfg, err |-> "nil"]
    ELSE IF i <= Len(row)
    THEN IF i = failAt THEN [config |-> cfg, err |-> ErrExec]
         ELSE ConfigLoopAllColumns(
                  InsertOrReplaceConfig(
                      cfg, ConfigRow(idItem, uid,
                                     IF ToUpper(cols[i].Title) \in DOMAIN aliases
                                     THEN aliases[ToUpper(cols[i].Title)]
                                     ELSE ToUpper(cols[i].Title),
                                     row[i])),
                  idItem, uid, row, cols, aliases, failAt, i + 1)
    ELSE ConfigLoopAllColumns(cfg, idItem, uid, row, cols, aliases, failAt, i + 1)

RECURSIVE ConfigLoop(_, _, _, _, _, _, _, _)
\* the loop of SaveConfigFromTable from column i on; failAt is the column
\* whose Exec fails (0: none does)
ConfigLoop(cfg, idItem, uid, row, cols, aliases, failAt, i) ==
    IF i > Len(cols) THEN [config |-> cfg, err |-> "nil"]
    ELSE IF i <= Len(row) /\ ToUpper(cols[i].Title) \in DOMAIN aliases
    THEN IF i = failAt THEN [config |-> cfg, err |-> ErrExec]
         ELSE ConfigLoop(
                  InsertOrReplaceConfig(
                      cfg, ConfigRow(idItem, uid,
                                     aliases[ToUpper(cols[i].Title)], row[i])),
                  idItem, uid, row, cols, aliases, failAt, i + 1)
    ELSE ConfigLoop(cfg, idItem, uid, row, cols, aliases, failAt, i + 1)

\* SaveConfigFromTable: the items and config tables afterwards and the error.
\* failAt = -1: the item statements fail; failAt = k > 0: the write of
\* column k fails
SaveConfigFromTable(itms, cfg, itemName, idDB, uid, row, cols, aliases, failAt) ==
    IF failAt = -1 THEN [items |-> itms, config |-> cfg, err |-> ErrExec]
    ELSE LET itms2 == InsertItemIfNotExists(itms, itemName, idDB)
             idItem == GetItemID(itms2, itemName)
             w == ConfigLoop(cfg, idItem.val, uid, row, cols, aliases, failAt, 1)
         IN  IF idItem.err # "nil"
             THEN [items |-> itms2, config |-> cfg, err |-> idItem.err]
             ELSE [items |-> itms2, config |-> w.config, err |-> w.err]

(***************************************************************************)
(* The backend database and the query executor (db/database.go).          *)
(* The backend holds one table t(a INTEGER, c TEXT); BaseSQL selects it.  *)
(* A predicate the backend accepts is a column name: it keeps the rows    *)
(* whose value in that column is true (not NULL and not zero).            *)
(***************************************************************************)
BaseSQL == "SELECT a, c FROM t"

RawColumns == <<"a", "c">>

IntVal(n) == [t |-> "int", v |-> n]

NullVal == [t |-> "null", v |-> 0]

AllRawRows ==
    << <<IntVal(0), NullVal>>, <<IntVal(1), NullVal>>, <<IntVal(1), NullVal>>,
       <<IntVal(2), NullVal>>, <<IntVal(0), NullVal>> >>

RawRows == SubSeq(AllRawRows, 1, NumRows)

ErrSQL == "SQL logic error"

WherePrefix == "SELECT * FROM (" \o BaseSQL \o ") WHERE "

ColumnIndex(name) ==
    IF \E i \in 1..Len(RawColumns) : RawColumns[i] = name
    THEN CHOOSE i \in 1..Len(RawColumns) : RawColumns[i] = name
    ELSE 0

RECURSIVE SelectSeq2(_, _)
\* the rows of rs whose value in column k is true, in order
SelectSeq2(rs, k) ==
    IF rs = <<>> THEN <<>>
    ELSE IF Head(rs)[k].t = "int" /\ Head(rs)[k].v # 0
    THEN <<Head(rs)>> \o SelectSeq2(Tail(rs), k)
    ELSE SelectSeq2(Tail(rs), k)

\* db.Query: what the backend answers to a query string
BackendQuery(q) ==
    IF q = BaseSQL THEN [rows |-> RawRows, cols |-> RawColumns, err |-> "nil"]
    ELSE IF HasPrefix(q, WherePrefix)
                /\ ColumnIndex(TrimSpace(TrimPrefix(q, WherePrefix))) # 0
    THEN [rows |-> SelectSeq2(RawRows,
                              ColumnIndex(TrimSpace(TrimPrefix(q, WherePrefix)))),
          cols |-> RawColumns, err |-> "nil"]
    ELSE [rows |-> <<>>, cols |-> <<>>, err |-> ErrSQL]

TextVal(s) == [t |-> "text", v |-> s]

\* the switch of GetContent: nil -> "", []byte and string -> the text,
\* other scalars -> fmt.Sprintf("%v")
CellString(v) ==
    IF v.t = "null" THEN "" ELSE IF v.t = "text" THEN v.v ELSE ToString(v.v)

\* the table.Row GetContent builds from one scanned row
Cells(raw) == [j \in 1..Len(raw) |-> CellString(raw[j])]

Column(title, width) == [Title |-> title, Width |-> width]

\* db.GetContent
GetContent(q) ==
    LET r == BackendQuery(q) IN
    IF r.err # "nil" THEN [rows |-> <<>>, cols |-> <<>>, err |-> r.err]
    ELSE [rows |-> [i \in 1..Len(r.rows) |->
                       [j \in 1..Len(r.cols) |-> CellString(r.rows[i][j])]],
          cols |-> [j \in 1..Len(r.cols) |-> Column(ToUpper(r.cols[j]), 20)],
          err |-> "nil"]

(***************************************************************************)
(* Row identity: hex of sha256 over the cells joined with "|".  sha256 is *)
(* taken as an injective function of the joined bytes.                    *)
(***************************************************************************)
Sha256Hex(bytes) == "sha256:" \o bytes

\* fmt.Sprintf("%x", sha256.Sum256([]byte(strings.Join(row, "|"))))
RowHash(row) == Sha256Hex(Join(row, "|"))

(***************************************************************************)
(* The widgets (bubbles table and textinput) as the program uses them.    *)
(* The Model value m carries the table (rows, cols, cursor, tableFocus)   *)
(* and the text input (inputValue, inputFocus) with the fields of Model.  *)
(***************************************************************************)
Clamp(v, low, high) ==
    LET a == IF v > low THEN v ELSE low IN IF a < high THEN a ELSE high

\* table.SetCursor, cursor counted from 0
SetCursor(t, n) == [t EXCEPT !.cursor = Clamp(n, 0, Len(t.rows) - 1)]

\* table.SetRows: the cursor is pulled back into the rows
SetRows(t, rows) ==
    [t EXCEPT !.rows = rows,
              !.cursor = IF t.cursor > Len(rows) - 1 THEN Len(rows) - 1
                         ELSE t.cursor]

\* table.SetColumns
SetColumns(t, cols) == [t EXCEPT !.cols = cols]

\* table.SelectedRow: nil (the empty row) when the cursor is on no row
SelectedRow(t) ==
    IF t.cursor < 0 \/ t.cursor >= Len(t.rows) THEN <<>>
    ELSE t.rows[t.cursor + 1]

\* ToVerticalView: the first row as (column, val) rows
ToVerticalView(rows, cols) ==
    IF Len(rows) = 0 THEN [rows |-> rows, cols |-> cols]
    ELSE [rows |-> [i \in 1..Len(cols) |->
                       <<cols[i].Title,
                         IF i <= Len(rows[1]) THEN rows[1][i] ELSE "">>],
          cols |-> <<Column("column", 30), Column("val", 50)>>]

\* the query FilterContent hands to db.GetContent
FilterSQL(sqlQuery, filter) ==
    LET f == TrimSpace(TrimPrefix(TrimSpace(filter), "WHERE")) IN
    IF f = "" THEN sqlQuery
    ELSE "SELECT * FROM (" \o sqlQuery \o ")" \o " WHERE " \o f

\* the width loop of FilterContent
FilterWidths(cols, widths, aliases) ==
    [i \in 1..Len(cols) |->
        LET colTitle == ToUpper(cols[i].Title)
            originalName == IF colTitle \in DOMAIN aliases
                            THEN aliases[colTitle] ELSE colTitle
        IN  Column(cols[i].Title,
                   IF originalName \in DOMAIN widths
                   THEN widths[originalName] ELSE 20)]

\* Model.FilterContent; query is what it handed to db.GetContent
FilterContent(mdl, filter) ==
    LET cfg == GetQueryConfig(mdl.sqlName)
        widths == IF cfg.err # "nil" THEN NoWidths ELSE cfg.widths
        aliases == IF cfg.err # "nil" THEN NoAliases ELSE cfg.aliases
        q == FilterSQL(mdl.sqlQuery, filter)
        r == GetContent(q)
        cols == FilterWidths(r.cols, widths, aliases)
        v == ToVerticalView(r.rows, cols)
    IN  IF r.err # "nil"
        THEN [rows |-> <<>>, cols |-> <<>>, err |-> r.err, query |-> q]
        ELSE IF mdl.view = "c"
        THEN [rows |-> v.rows, cols |-> v.cols, err |-> "nil", query |-> q]
        ELSE [rows |-> r.rows, cols |-> cols, err |-> "nil", query |-> q]

RECURSIVE FirstRowWithHashComma(_, _, _)
\* the search with its digest taken over the cells joined with ","
FirstRowWithHashComma(rows, targetHash, i) ==
    IF i > Len(rows) THEN 0
    ELSE IF Sha256Hex(Join(rows[i], ",")) = targetHash THEN i
    ELSE FirstRowWithHashComma(rows, targetHash, i + 1)

RECURSIVE FirstRowWithHash(_, _, _)
\* the loop of SelectRowByHash from row i on: the row it stops at, 0 if none
FirstRowWithHash(rows, targetHash, i) ==
    IF i > Len(rows) THEN 0
    ELSE IF RowHash(rows[i]) = targetHash THEN i
    ELSE FirstRowWithHash(rows, targetHash, i + 1)

\* the loop without its break: the cursor ends on the last matching row
SelectRowByHashLast(mdl, targetHash) ==
    LET S == {i \in 1..Len(mdl.rows) : RowHash(mdl.rows[i]) = targetHash} IN
    IF S = {} THEN mdl ELSE SetCursor(mdl, Max(S) - 1)

\* Model.SelectRowByHash
SelectRowByHash(mdl, targetHash) ==
    LET i == FirstRowWithHash(mdl.rows, targetHash, 1) IN
    IF i = 0 THEN mdl ELSE SetCursor(mdl, i - 1)

(***************************************************************************)
(* The schema of tel.db (config.Init).  The DDL is one Exec of several    *)
(* statements: they run in order, each commits by itself, and the Exec    *)
(* stops at the first statement that fails.                                *)
(***************************************************************************)
Tables == {"dbs", "items", "config", "queries", "instance"}

SchemaObjects == Tables \cup {"generate_uuid_trigger"}

\* the statements of the ddl string: what each creates and whether it says
\* IF NOT EXISTS
DDL ==
    <<[name |-> "dbs", ifNotExists |-> TRUE],
      [name |-> "items", ifNotExists |-> TRUE],
      [name |-> "config", ifNotExists |-> TRUE],
      [name |-> "queries", ifNotExists |-> FALSE],
      [name |-> "instance", ifNotExists |-> TRUE],
      [name |-> "generate_uuid_trigger", ifNotExists |-> FALSE]>>

RECURSIVE ExecDDL(_, _, _, _)
\* sqliteDB.Exec(ddl) from statement i on; failAt is the statement that
\* fails for a reason of its own (0: none)
ExecDDL(sch, stmts, failAt, i) ==
    IF i > Len(stmts) \/ i = failAt THEN sch
    ELSE IF stmts[i].name \in sch
    THEN IF stmts[i].ifNotExists THEN ExecDDL(sch, stmts, failAt, i + 1)
         ELSE sch
    ELSE ExecDDL(sch \cup {stmts[i].name}, stmts, failAt, i + 1)

\* Init, line 383: the schema afterwards; the result of Exec is dropped
InitDDL(sch, failAt) == ExecDDL(sch, DDL, failAt, 1)

(***************************************************************************)
(* Startup (cmd/tel/main.go).                                              *)
(***************************************************************************)
NoModel ==
    [rows |-> <<>>, cols |-> <<>>, cursor |-> 0, tableFocus |-> FALSE,
     inputFocus |-> FALSE, inputValue |-> "", itemName |-> "", sqlName |-> "",
     sqlQuery |-> "", idDB |-> 0, idQuery |-> 0, height |-> 0,
     aliases |-> NoAliases, initialFilter |-> "", uid |-> "", filter |-> "",
     view |-> ""]

\* applyColumnWidths
applyColumnWidths(columns, widths, aliases) ==
    [i \in 1..Len(columns) |->
        Column(columns[i].Title,
               IF columns[i].Title \in DOMAIN widths
               THEN widths[columns[i].Title] ELSE 20)]

\* the table height main computes
TableHeight(tblHeight, nrows) ==
    (IF nrows < 10 THEN nrows ELSE IF tblHeight = 0 THEN 10 ELSE tblHeight) + 1

\* main, lines 207-216: the filter the run starts with
StartFilter(fl, idQuery) ==
    LET loaded == GetFilterByUID(instance, fl.uid, idQuery) IN
    IF fl.filter = "" /\ fl.uid # "" /\ loaded.err = "nil" /\ loaded.val # ""
    THEN loaded.val
    ELSE fl.filter

\* the replacement without the test for an empty result
ApplyStartFilterAlways(mdl, filter) ==
    LET r == FilterContent(mdl, filter) IN
    IF filter # "" /\ r.err = "nil"
    THEN SetColumns(SetRows(mdl, r.rows), r.cols)
    ELSE mdl

\* main, lines 227-235: the filtered rows replace the table's when the
\* filter is not empty, runs without error and keeps a row
ApplyStartFilter(mdl, filter) ==
    LET r == FilterContent(mdl, filter) IN
    IF filter # "" /\ r.err = "nil" /\ Len(r.rows) > 0
    THEN SetColumns(SetRows(mdl, r.rows), r.cols)
    ELSE mdl

\* main, lines 237-246: the cursor goes to the row of the stored digest
SelectStartRow(mdl, uid) ==
    LET hash == GetHashByUID(instance, uid, mdl.idQuery) IN
    IF uid # "" /\ hash.err = "nil" THEN SelectRowByHash(mdl, hash.val)
    ELSE mdl

\* main up to tea.NewProgram(m).Run(): ok is FALSE when the process exits
\* with code 1; connOK is whether db.Connect succeeds
Startup(fl, connOK) ==
    LET idDB == GetDBID(fl.db)
        idItem == GetItemID(items, fl.item)
        idQuery == GetQueryID(fl.sql)
        sqlQuery == GetQueryFromDB(fl.sql)
        cfg == GetQueryConfig(fl.sql)
        r == GetContent(sqlQuery.val)
        filter == StartFilter(fl, idQuery.val)
        m0 == [rows |-> r.rows,
               cols |-> applyColumnWidths(r.cols, cfg.widths, cfg.aliases),
               cursor |-> 0, tableFocus |-> TRUE,
               inputFocus |-> FALSE, inputValue |-> filter,
               itemName |-> fl.item, sqlName |-> fl.sql,
               sqlQuery |-> sqlQuery.val, idDB |-> idDB.val,
               idQuery |-> idQuery.val,
               height |-> TableHeight(cfg.height, Len(r.rows)),
               aliases |-> cfg.aliases, initialFilter |-> filter,
               uid |-> fl.uid, filter |-> filter, view |-> ""]
    IN  IF \/ fl.item = "" \/ fl.sql = "" \/ fl.db = ""
           \/ idDB.err # "nil" \/ idItem.err # "nil" \/ idQuery.err # "nil"
           \/ sqlQuery.err # "nil" \/ cfg.err # "nil" \/ ~connOK
           \/ r.err # "nil" \/ Len(r.rows) = 0 \/ Len(r.cols) = 0
        THEN [ok |-> FALSE, m |-> NoModel]
        ELSE [ok |-> TRUE,
              m |-> SelectStartRow(ApplyStartFilter(m0, filter), fl.uid)]

(***************************************************************************)
(* Model.Update (cmd/tel/model.go): one action per key event.             *)
(***************************************************************************)
MaxFilterLen == 1   \* characters the text input holds in the model

TypedRunes == {"a", "c", "("}

\* op: the key or call; query: the SQL handed to the backend; err: the
\* error shown or returned; saveErr, uid: what SaveInstance returned;
\* given, idQuery, hash, filter: its arguments; item, sql, db: the
\* selectors of the run; conn: whether db.Connect succeeded; blob: what
\* randomblob returned; result: what a catalog call returned
NoEvent ==
    [op |-> "", query |-> "", err |-> "nil", saveErr |-> "nil", uid |-> "",
     hash |-> "", filter |-> "", given |-> "", idQuery |-> 0,
     item |-> "", sql |-> "", db |-> "", conn |-> TRUE, blob |-> <<>>,
     result |-> <<>>]

\* the event of a step that called SaveInstance with result s
SaveEvent(op, query, s, given, idQuery, hash, filter) ==
    [NoEvent EXCEPT !.op = op, !.query = query, !.saveErr = s.err,
                    !.uid = s.uid, !.hash = hash, !.filter = filter,
                    !.given = given, !.idQuery = idQuery]

\* the event of a step that stopped on error err before SaveInstance
ErrorEvent(op, query, err, given, idQuery, hash, filter) ==
    [NoEvent EXCEPT !.op = op, !.query = query, !.err = err, !.given = given,
                    !.idQuery = idQuery, !.hash = hash, !.filter = filter]

\* lines 217-223: the widgets see the key, then the filter field follows
\* the text input when that has focus
SyncFilter(mdl) ==
    IF mdl.inputFocus THEN [mdl EXCEPT !.filter = mdl.inputValue] ELSE mdl

Running == pc = "running" /\ nkeys < MaxKeys

\* the outcomes of randomblob that matter: it is read only for an empty uid
RandomBlobs(uid) == IF uid = "" THEN Blobs ELSE {Blob(1)}

\* the history of successful SaveInstance calls: per key the last values
\* and the number n of calls that wrote it
Remember(r, idQuery, hash, filter) ==
    LET k == <<r.uid, idQuery>> IN
    IF r.err = "nil"
    THEN (k :> [hash |-> hash, filter |-> filter,
                n |-> IF k \in DOMAIN saved THEN saved[k].n + 1 ELSE 1])
         @@ saved
    ELSE saved

\* case "tab"
TabFocus(mdl) ==
    IF mdl.tableFocus
    THEN [mdl EXCEPT !.tableFocus = FALSE, !.inputFocus = TRUE]
    ELSE [mdl EXCEPT !.inputFocus = FALSE, !.tableFocus = TRUE]

\* case "esc"
EscFocus(mdl) ==
    IF mdl.tableFocus
    THEN [mdl EXCEPT !.tableFocus = FALSE]
    ELSE [mdl EXCEPT !.tableFocus = TRUE]

KeyTab ==
    /\ Running
    /\ m' = SyncFilter(TabFocus(m))
    /\ nkeys' = nkeys + 1
    /\ ev' = [NoEvent EXCEPT !.op = "tab"]
    /\ pc' = pc
    /\ UNCHANGED <<store, saved, ncalls, procs, schema>>

KeyEsc ==
    /\ Running
    /\ m' = SyncFilter(EscFocus(m))
    /\ nkeys' = nkeys + 1
    /\ ev' = [NoEvent EXCEPT !.op = "esc"]
    /\ pc' = pc
    /\ UNCHANGED <<store, saved, ncalls, procs, schema>>

\* case "ctrl+c": tea.Quit ends Run and main returns
KeyCtrlC ==
    /\ Running
    /\ pc' = "exit0"
    /\ nkeys' = nkeys + 1
    /\ ev' = [NoEvent EXCEPT !.op = "ctrl+c"]
    /\ UNCHANGED <<store, saved, m, ncalls, procs, schema>>

\* table.Update on "up" / "down": MoveUp(1) / MoveDown(1) when focused
MoveCursor(mdl, d) ==
    IF mdl.tableFocus
    THEN [mdl EXCEPT !.cursor = Clamp(mdl.cursor + d, 0, Len(mdl.rows) - 1)]
    ELSE mdl

KeyUp ==
    /\ Running
    /\ m' = SyncFilter(MoveCursor(m, -1))
    /\ nkeys' = nkeys + 1
    /\ ev' = [NoEvent EXCEPT !.op = "up"]
    /\ pc' = pc
    /\ UNCHANGED <<store, saved, ncalls, procs, schema>>

KeyDown ==
    /\ Running
    /\ m' = SyncFilter(MoveCursor(m, 1))
    /\ nkeys' = nkeys + 1
    /\ ev' = [NoEvent EXCEPT !.op = "down"]
    /\ pc' = pc
    /\ UNCHANGED <<store, saved, ncalls, procs, schema>>

\* textinput.Update on a character: appended when the input has focus
TypeRune(mdl, c) ==
    IF mdl.inputFocus /\ Len(mdl.inputValue) < MaxFilterLen
    THEN [mdl EXCEPT !.inputValue = mdl.inputValue \o c]
    ELSE mdl

\* textinput.Update on backspace: the last character goes
Backspace(mdl) ==
    IF mdl.inputFocus /\ mdl.inputValue # ""
    THEN [mdl EXCEPT !.inputValue = SubSeq(mdl.inputValue, 1,
                                           Len(mdl.inputValue) - 1)]
    ELSE mdl

KeyRunes ==
    /\ Running
    /\ \E c \in TypedRunes : m' = SyncFilter(TypeRune(m, c))
    /\ nkeys' = nkeys + 1
    /\ ev' = [NoEvent EXCEPT !.op = "runes"]
    /\ pc' = pc
    /\ UNCHANGED <<store, saved, ncalls, procs, schema>>

KeyBackspace ==
    /\ Running
    /\ m' = SyncFilter(Backspace(m))
    /\ nkeys' = nkeys + 1
    /\ ev' = [NoEvent EXCEPT !.op = "backspace"]
    /\ pc' = pc
    /\ UNCHANGED <<store, saved, ncalls, procs, schema>>

\* the replacement without the error test
FilterCommitAlways(mdl, r) == SetColumns(SetRows(mdl, r.rows), r.cols)

\* lines 181-188: the model Update returns for the result r of FilterContent
FilterCommit(mdl, r) ==
    IF r.err # "nil" THEN mdl ELSE SetColumns(SetRows(mdl, r.rows), r.cols)

\* the digest taken ahead of the replacement
FilterCommitHashBefore(before, after) == RowHash(SelectedRow(before))

\* lines 191-192: the digest a filter commit stores, before and after being
\* the model ahead of and past the replacement of the rows
FilterCommitHash(before, after) == RowHash(SelectedRow(after))

\* case "enter", text input focused (lines 179-195)
KeyEnterFilter ==
    /\ Running
    /\ m.inputFocus
    /\ LET filter == m.inputValue
           r == FilterContent(m, filter)
           m2 == FilterCommit(m, r)
           hash == FilterCommitHash(m, m2)
       IN  \/ /\ r.err # "nil"
              /\ m' = m2
              /\ ev' = ErrorEvent("enter-filter", r.query, r.err, m.uid,
                                   m.idQuery, "", filter)
              /\ UNCHANGED <<store, saved, ncalls, procs, schema>>
           \/ /\ r.err = "nil"
              /\ m' = m2
              /\ \E blob \in RandomBlobs(m.uid), ok \in BOOLEAN :
                    LET s == SaveInstanceResult(instance, m.idQuery, hash,
                                                m.uid, filter, blob, ok)
                    IN  /\ instance' = s.instance
                        /\ saved' = Remember(s, m.idQuery, hash, filter)
                        /\ ev' = SaveEvent("enter-filter", r.query, s, m.uid,
                                           m.idQuery, hash, filter)
              /\ UNCHANGED <<dbs, items, config, queries, ncalls, procs, schema>>
    /\ nkeys' = nkeys + 1
    /\ pc' = pc

\* the branch that calls SaveInstance whatever SaveConfigFromTable returned
EnterTableSaveAnyway(itms, cfg, inst, mdl, failAt, blob, ok) ==
    LET row == SelectedRow(mdl)
        hash == RowHash(row)
        filter == mdl.inputValue
        c == SaveConfigFromTable(itms, cfg, mdl.itemName, mdl.idDB, mdl.uid,
                                 row, mdl.cols, mdl.aliases, failAt)
        s == SaveInstanceResult(inst, mdl.idQuery, hash, mdl.uid, filter,
                                blob, ok)
    IN  IF c.err # "nil"
        THEN [items |-> c.items, config |-> c.config, instance |-> s.instance,
              saved |-> Remember(s, mdl.idQuery, hash, filter),
              ev |-> ErrorEvent("enter-table", "", c.err, mdl.uid,
                                mdl.idQuery, hash, filter)]
        ELSE [items |-> c.items, config |-> c.config, instance |-> s.instance,
              saved |-> Remember(s, mdl.idQuery, hash, filter),
              ev |-> SaveEvent("enter-table", "", s, mdl.uid, mdl.idQuery,
                               hash, filter)]

\* lines 196-212, the branch of "enter" when the text input is not focused:
\* the tables, the history and the event it leaves.  SaveConfigFromTable
\* runs first; on its error Update returns, otherwise SaveInstance runs
EnterTable(itms, cfg, inst, mdl, failAt, blob, ok) ==
    LET row == SelectedRow(mdl)
        hash == RowHash(row)
        filter == mdl.inputValue
        c == SaveConfigFromTable(itms, cfg, mdl.itemName, mdl.idDB, mdl.uid,
                                 row, mdl.cols, mdl.aliases, failAt)
        s == SaveInstanceResult(inst, mdl.idQuery, hash, mdl.uid, filter,
                                blob, ok)
    IN  IF c.err # "nil"
        THEN [items |-> c.items, config |-> c.config, instance |-> inst,
              saved |-> saved,
              ev |-> ErrorEvent("enter-table", "", c.err, mdl.uid,
                                mdl.idQuery, hash, filter)]
        ELSE [items |-> c.items, config |-> c.config, instance |-> s.instance,
              saved |-> Remember(s, mdl.idQuery, hash, filter),
              ev |-> SaveEvent("enter-table", "", s, mdl.uid, mdl.idQuery,
                               hash, filter)]

\* the row confirmation that also registers the connection of the item
KeyEnterTableNewConnection ==
    /\ Running
    /\ ~m.inputFocus
    /\ \E e \in {EnterTable(items, config, instance, m, failAt, blob, ok) :
                    failAt \in -1..Len(m.cols), blob \in RandomBlobs(m.uid),
                    ok \in BOOLEAN} :
          /\ items' = e.items
          /\ config' = e.config
          /\ instance' = e.instance
          /\ saved' = e.saved
          /\ ev' = e.ev
    /\ dbs' = dbs \cup {[id |-> m.idDB + 1, driver |-> "sqlite",
                         name |-> m.itemName, connect |-> ""]}
    /\ m' = m
    /\ nkeys' = nkeys + 1
    /\ pc' = pc
    /\ UNCHANGED <<queries, ncalls, procs, schema>>

\* case "enter", text input not focused (lines 196-212)
KeyEnterTable ==
    /\ Running
    /\ ~m.inputFocus
    /\ \E e \in {EnterTable(items, config, instance, m, failAt, blob, ok) :
                    failAt \in -1..Len(m.cols), blob \in RandomBlobs(m.uid),
                    ok \in BOOLEAN} :
          /\ items' = e.items
          /\ config' = e.config
          /\ instance' = e.instance
          /\ saved' = e.saved
          /\ ev' = e.ev
    /\ m' = m
    /\ nkeys' = nkeys + 1
    /\ pc' = pc
    /\ UNCHANGED <<dbs, queries, ncalls, procs, schema>>

(***************************************************************************)
(* The program: the store as earlier runs left it, one run of tel.        *)
(***************************************************************************)
Connections ==
    {[id |-> 1, driver |-> "sqlite", name |-> "analytics", connect |-> "a.db"]}

StoredConfigs ==
    {[kind |-> "null", widths |-> NoWidths, aliases |-> NoAliases, height |-> 0],
     [kind |-> "json", widths |-> ("x" :> 30) @@ ("C" :> 12),
      aliases |-> ("A" :> "x"), height |-> 0],
     [kind |-> "json", widths |-> NoWidths,
      aliases |-> ("A" :> "v") @@ ("C" :> "v"), height |-> 0],
     [kind |-> "malformed", widths |-> NoWidths, aliases |-> NoAliases,
      height |-> 0]}

\* tokens and values earlier runs may have left in the instance table
OldTokens == {"u1"}

OldHashes == {RowHash(<<"1", "">>), RowHash(<<"7", "">>)}

OldFilters == {"", "a", "c", "("}

\* command lines whose selectors are set and name a connection and a query
\* of the catalog
Flags ==
    [item : {"users", "orders"}, sql : {"active_users"}, db : {"analytics"},
     filter : {"", "a"}, uid : {"", "u1"}]

\* command lines with one selector left out or naming nothing, or naming
\* the query without rows
BadFlags ==
    {[item |-> i, sql |-> "active_users", db |-> "analytics", filter |-> "",
      uid |-> "u1"] : i \in {""}}
    \cup {[item |-> "users", sql |-> q, db |-> "analytics", filter |-> "",
           uid |-> "u1"] : q \in {"", "missing", "no_users"}}
    \cup {[item |-> "users", sql |-> "active_users", db |-> d, filter |-> "",
           uid |-> "u1"] : d \in {"", "missing"}}

\* the stored query whose result has no row
EmptyQuery ==
    [id |-> 2, id_item |-> 1, name |-> "no_users", query |-> WherePrefix \o "c",
     config |-> [kind |-> "null", widths |-> NoWidths, aliases |-> NoAliases,
                 height |-> 0],
     height |-> {}]

SavedOf(inst) ==
    [k \in {<<r.uid, r.id_query>> : r \in inst} |->
        LET r == CHOOSE x \in inst : x.uid = k[1] /\ x.id_query = k[2]
        IN  [hash |-> r.hash, filter |-> r.filter, n |-> 1]]

Init ==
    /\ dbs = Connections
    /\ items = {[id |-> 1, id_db |-> 1, name |-> "users"]}
    /\ config = {}
    /\ \E c \in StoredConfigs :
          queries = {[id |-> 1, id_item |-> 1, name |-> "active_users",
                      query |-> BaseSQL, config |-> c, height |-> {}],
                     EmptyQuery}
    /\ \/ instance = {}
       \/ \E t \in OldTokens, h \in OldHashes, f \in OldFilters :
             instance = {InstanceRow(t, 1, h, f)}
    /\ saved = SavedOf(instance)
    /\ pc = "start"
    /\ m = NoModel
    /\ nkeys = 0
    /\ ncalls = 0
    /\ ev = NoEvent
    /\ procs = <<>>
    /\ schema = SchemaObjects

\* main() from the flags to the first render, or to os.Exit(1)
Main ==
    /\ pc = "start"
    /\ \E fl \in Flags \cup BadFlags, connOK \in BOOLEAN :
          LET s == Startup(fl, connOK) IN
          /\ pc' = IF s.ok THEN "running" ELSE "exit1"
          /\ m' = s.m
          /\ ev' = [NoEvent EXCEPT !.op = "main", !.filter = fl.filter,
                                   !.uid = fl.uid, !.item = fl.item,
                                   !.sql = fl.sql, !.db = fl.db,
                                   !.conn = connOK]
    /\ \E failAt \in 0..Len(DDL) : schema' = InitDDL(schema, failAt)
    /\ UNCHANGED <<store, saved, nkeys, ncalls, procs>>

Next ==
    \/ Main
    \/ KeyTab
    \/ KeyEsc
    \/ KeyCtrlC
    \/ KeyUp
    \/ KeyDown
    \/ KeyRunes
    \/ KeyBackspace
    \/ KeyEnterFilter
    \/ KeyEnterTable

Spec == Init /\ [][Next]_vars

(***************************************************************************)
(* The session store called directly: SaveInstance and the lookups on any *)
(* arguments, up to MaxCalls calls of SaveInstance.                        *)
(***************************************************************************)
QueryIDs == {1, 2}

CallTokens == {"", "u1"}

CallHashes == {RowHash(<<"1", "">>), RowHash(<<"2", "">>)}

CallFilters == {"", "a"}

\* every token a row of the instance table can carry in SpecStore
AllTokens == {"u1"} \cup {UUIDs[b] : b \in Blobs}

StoreInit ==
    /\ dbs = Connections
    /\ items = {[id |-> 1, id_db |-> 1, name |-> "users"]}
    /\ config = {}
    /\ queries = {[id |-> q, id_item |-> 1,
                   name |-> IF q = 1 THEN "active_users" ELSE "all_users",
                   query |-> BaseSQL,
                   config |-> [kind |-> "null", widths |-> NoWidths,
                               aliases |-> NoAliases, height |-> 0],
                   height |-> {}] : q \in QueryIDs}
    /\ instance = {}
    /\ saved = SavedOf(instance)
    /\ pc = "api"
    /\ m = NoModel
    /\ nkeys = 0
    /\ ncalls = 0
    /\ ev = NoEvent
    /\ procs = <<>>
    /\ schema = SchemaObjects

CallSaveInstance ==
    /\ pc = "api"
    /\ ncalls < MaxCalls
    /\ \E q \in QueryIDs, h \in CallHashes, t \in CallTokens, f \in CallFilters :
          \E blob \in RandomBlobs(t), ok \in BOOLEAN :
             LET s == SaveInstanceResult(instance, q, h, t, f, blob, ok) IN
             /\ instance' = s.instance
             /\ saved' = Remember(s, q, h, f)
             /\ ev' = [SaveEvent("SaveInstance", "", s, t, q, h, f)
                         EXCEPT !.blob = blob]
    /\ ncalls' = ncalls + 1
    /\ UNCHANGED <<dbs, items, config, queries, pc, m, nkeys, procs, schema>>

\* GetHashByUID and GetFilterByUID on the same key: err, hash are the
\* error and value of the first, saveErr, filter those of the second
CallLookup ==
    /\ pc = "api"
    /\ \E t \in AllTokens, q \in QueryIDs :
          ev' = [NoEvent EXCEPT !.op = "Lookup", !.given = t, !.idQuery = q,
                    !.err = GetHashByUID(instance, t, q).err,
                    !.hash = GetHashByUID(instance, t, q).val,
                    !.saveErr = GetFilterByUID(instance, t, q).err,
                    !.filter = GetFilterByUID(instance, t, q).val]
    /\ UNCHANGED <<store, saved, pc, m, nkeys, ncalls, procs, schema>>

StoreNext ==
    \/ CallSaveInstance
    \/ CallLookup

SpecStore == StoreInit /\ [][StoreNext]_vars

(***************************************************************************)
(* The filter composer on its own: a running program whose text input     *)
(* holds any of FilterInputs, and the enter key on it.                     *)
(***************************************************************************)
FilterInputs ==
    {lead \o kw \o mid \o body \o trail :
        lead \in {"", " ", "  "}, kw \in {"", "WHERE", "where", "WHER"},
        mid \in {"", " "}, body \in {"", "a", "c", "ABOUTS", "a = 1"},
        trail \in {"", " "}}

FilterInit ==
    /\ dbs = Connections
    /\ items = {[id |-> 1, id_db |-> 1, name |-> "users"]}
    /\ config = {}
    /\ queries = {[id |-> 1, id_item |-> 1, name |-> "active_users",
                   query |-> BaseSQL,
                   config |-> [kind |-> "null", widths |-> NoWidths,
                               aliases |-> NoAliases, height |-> 0],
                   height |-> {}]}
    /\ instance = {}
    /\ saved = SavedOf(instance)
    /\ pc = "running"
    /\ \E f \in FilterInputs :
          m = [Startup([item |-> "users", sql |-> "active_users",
                        db |-> "analytics", filter |-> "", uid |-> "u1"],
                       TRUE).m
                 EXCEPT !.tableFocus = FALSE, !.inputFocus = TRUE,
                        !.inputValue = f, !.filter = f]
    /\ nkeys = 0
    /\ ncalls = 0
    /\ ev = NoEvent
    /\ procs = <<>>
    /\ schema = SchemaObjects

SpecFilter == FilterInit /\ [][KeyEnterFilter]_vars

(***************************************************************************)
(* The catalog lookup GetQueryConfig on its own: one query row with any   *)
(* of ConfigColumns in its config column and any of StoredHeights in its  *)
(* height column.                                                          *)
(***************************************************************************)
ConfigColumns ==
    {[kind |-> k, widths |-> NoWidths, aliases |-> NoAliases, height |-> 0] :
        k \in {"null", "empty", "malformed"}}
    \cup [kind : {"json"}, widths : {NoWidths, ("x" :> 30) @@ ("C" :> 12)},
          aliases : {NoAliases, ("A" :> "x")}, height : {0, 7}]

\* the height column: NULL, 0, 5 or the default 10
StoredHeights == {{}, {0}, {5}, {10}}

ConfigInit ==
    /\ dbs = Connections
    /\ items = {[id |-> 1, id_db |-> 1, name |-> "users"]}
    /\ config = {}
    /\ \E c \in ConfigColumns, h \in StoredHeights :
          queries = {[id |-> 1, id_item |-> 1, name |-> "active_users",
                      query |-> BaseSQL, config |-> c, height |-> h]}
    /\ instance = {}
    /\ saved = SavedOf(instance)
    /\ pc = "api"
    /\ m = NoModel
    /\ nkeys = 0
    /\ ncalls = 0
    /\ ev = NoEvent
    /\ procs = <<>>
    /\ schema = SchemaObjects

CallGetQueryConfig ==
    /\ pc = "api"
    /\ \E name \in {"active_users", "all_users"} :
          ev' = [NoEvent EXCEPT !.op = "GetQueryConfig", !.given = name,
                                !.result = GetQueryConfig(name)]
    /\ UNCHANGED <<store, saved, pc, m, nkeys, ncalls, procs, schema>>

SpecConfig == ConfigInit /\ [][CallGetQueryConfig]_vars

(***************************************************************************)
(* Row identity on text cells: a running program whose table shows two    *)
(* rows of a backend with two text columns, the cells drawn from          *)
(* TextCells; the keys down and enter on the table.                       *)
(***************************************************************************)
TextCells == {"", "a", "|", "a|"}

TextRows ==
    {<<TextVal(x), y>> :
        x \in TextCells, y \in {TextVal(c) : c \in TextCells} \cup {NullVal}}

HashInit ==
    /\ dbs = Connections
    /\ items = {[id |-> 1, id_db |-> 1, name |-> "users"]}
    /\ config = {}
    /\ queries = {[id |-> 1, id_item |-> 1, name |-> "active_users",
                   query |-> BaseSQL,
                   config |-> [kind |-> "null", widths |-> NoWidths,
                               aliases |-> NoAliases, height |-> 0],
                   height |-> {}]}
    /\ instance = {}
    /\ saved = SavedOf(instance)
    /\ pc = "running"
    /\ \E r1 \in TextRows, r2 \in TextRows :
          m = [NoModel EXCEPT !.rows = <<Cells(r1), Cells(r2)>>,
                              !.cols = <<Column("A", 20), Column("C", 20)>>,
                              !.tableFocus = TRUE, !.itemName = "users",
                              !.sqlName = "active_users", !.sqlQuery = BaseSQL,
                              !.idDB = 1, !.idQuery = 1, !.height = 3,
                              !.uid = "u1"]
    /\ nkeys = 0
    /\ ncalls = 0
    /\ ev = NoEvent
    /\ procs = <<>>
    /\ schema = SchemaObjects

HashNext ==
    \/ KeyDown
    \/ KeyEnterTable

SpecHash == HashInit /\ [][HashNext]_vars

(***************************************************************************)
(* Item creation called directly: InsertItemIfNotExists on any of         *)
(* ItemNames and any owning connection, one call at a time, up to         *)
(* MaxCalls calls.                                                         *)
(***************************************************************************)
ItemNames == {"users", "orders", "stock"}

ConnectionIDs == {1, 2}

ItemsInit ==
    /\ dbs = Connections
          \cup {[id |-> 2, driver |-> "duckdb", name |-> "lake", connect |-> "l.db"]}
    /\ items = {[id |-> 1, id_db |-> 1, name |-> "users"]}
    /\ config = {}
    /\ queries = {}
    /\ instance = {}
    /\ saved = SavedOf(instance)
    /\ pc = "api"
    /\ m = NoModel
    /\ nkeys = 0
    /\ ncalls = 0
    /\ ev = NoEvent
    /\ procs = <<>>
    /\ schema = SchemaObjects

\* one call; ok is whether its statements succeed
CallInsertItem ==
    /\ pc = "api"
    /\ ncalls < MaxCalls
    /\ \E name \in ItemNames, idDB \in ConnectionIDs, ok \in BOOLEAN :
          /\ items' = IF ok THEN InsertItemIfNotExists(items, name, idDB)
                       ELSE items
          /\ ev' = [NoEvent EXCEPT !.op = "InsertItemIfNotExists",
                                   !.item = name, !.result = idDB,
                                   !.err = IF ok THEN "nil" ELSE ErrExec]
    /\ ncalls' = ncalls + 1
    /\ UNCHANGED <<dbs, config, queries, instance, saved, pc, m, nkeys, procs, schema>>

SpecItems == ItemsInit /\ [][CallInsertItem]_vars

(***************************************************************************)
(* Two processes, each in one call of SaveInstance on the shared tel.db.  *)
(* A call takes two steps: it settles its token (lines 579-586, local     *)
(* unless the token is empty), then runs the one INSERT OR REPLACE        *)
(* statement (587-590), which SQLite executes atomically or fails.        *)
(***************************************************************************)
Procs == {1, 2}

\* the call of one process: its position, its arguments, its local uid and
\* what it returned
Call(idQuery, hash, providedUID, filter) ==
    [pc |-> "resolve", idQuery |-> idQuery, hash |-> hash,
     providedUID |-> providedUID, filter |-> filter, uid |-> "",
     ret |-> "", err |-> "nil"]

ConcInit ==
    /\ dbs = Connections
    /\ items = {[id |-> 1, id_db |-> 1, name |-> "users"]}
    /\ config = {}
    /\ queries = {[id |-> 1, id_item |-> 1, name |-> "active_users",
                   query |-> BaseSQL,
                   config |-> [kind |-> "null", widths |-> NoWidths,
                               aliases |-> NoAliases, height |-> 0],
                   height |-> {}]}
    /\ \/ instance = {}
       \/ instance = {InstanceRow("u1", 1, RowHash(<<"7", "">>), "c")}
    /\ saved = SavedOf(instance)
    /\ pc = "api"
    /\ m = NoModel
    /\ nkeys = 0
    /\ ncalls = 0
    /\ ev = NoEvent
    /\ schema = SchemaObjects
    /\ procs \in [Procs -> {Call(1, h, t, f) :
                                h \in CallHashes, t \in CallTokens,
                                f \in CallFilters}]

\* lines 579-586: uid := providedUID, or generateUUID() when that is empty
ProcResolve(p) ==
    /\ procs[p].pc = "resolve"
    /\ \E blob \in RandomBlobs(procs[p].providedUID), ok \in BOOLEAN :
          LET c == procs[p] IN
          procs' = [procs EXCEPT ![p] =
                      IF c.providedUID # ""
                      THEN [c EXCEPT !.pc = "exec", !.uid = c.providedUID]
                      ELSE IF ok
                      THEN [c EXCEPT !.pc = "exec", !.uid = UUIDs[blob]]
                      ELSE [c EXCEPT !.pc = "done", !.err = ErrExec]]
    /\ ev' = [NoEvent EXCEPT !.op = "resolve", !.result = p]
    /\ UNCHANGED <<store, saved, pc, m, nkeys, ncalls, schema>>

\* lines 587-594: the INSERT OR REPLACE statement and the return
ProcExec(p) ==
    /\ procs[p].pc = "exec"
    /\ \E ok \in BOOLEAN :
          LET c == procs[p]
              s == SaveInstanceResult(instance, c.idQuery, c.hash, c.uid,
                                      c.filter, Blob(1), ok)
          IN  /\ instance' = s.instance
              /\ saved' = Remember(s, c.idQuery, c.hash, c.filter)
              /\ procs' = [procs EXCEPT ![p] =
                             [c EXCEPT !.pc = "done", !.ret = s.uid,
                                       !.err = s.err]]
    /\ ev' = [NoEvent EXCEPT !.op = "exec", !.result = p]
    /\ UNCHANGED <<dbs, items, config, queries, pc, m, nkeys, ncalls, schema>>

ConcNext ==
    \E p \in Procs :
       \/ ProcResolve(p)
       \/ ProcExec(p)

SpecConc == ConcInit /\ [][ConcNext]_vars

(***************************************************************************)
(* Editing the filter: a run whose first key event, tab, has moved the     *)
(* focus to the text input, and the keys that follow it.                   *)
(***************************************************************************)
EditInit ==
    /\ dbs = Connections
    /\ items = {[id |-> 1, id_db |-> 1, name |-> "users"]}
    /\ config = {}
    /\ queries = {[id |-> 1, id_item |-> 1, name |-> "active_users",
                   query |-> BaseSQL,
                   config |-> [kind |-> "json", widths |-> NoWidths,
                               aliases |-> ("A" :> "x"), height |-> 0],
                   height |-> {}]}
    /\ \/ instance = {}
       \/ \E f \in OldFilters :
             instance = {InstanceRow("u1", 1, RowHash(<<"1", "">>), f)}
    /\ saved = SavedOf(instance)
    /\ pc = "running"
    /\ \E fl \in Flags :
          m = SyncFilter(TabFocus(Startup(fl, TRUE).m))
    /\ nkeys = 0
    /\ ncalls = 0
    /\ ev = [NoEvent EXCEPT !.op = "tab"]
    /\ procs = <<>>
    /\ schema = SchemaObjects

EditNext ==
    \/ KeyTab
    \/ KeyEsc
    \/ KeyRunes
    \/ KeyBackspace
    \/ KeyEnterFilter
    \/ KeyEnterTable

SpecEdit == EditInit /\ [][EditNext]_vars

(***************************************************************************)
(* Two processes, each in one row confirmation on the shared tel.db: the  *)
(* statements of SaveConfigFromTable and then of SaveInstance, as the     *)
(* table branch of enter issues them.  Every statement is one step: it    *)
(* runs atomically or fails, and nothing spans two statements.            *)
(***************************************************************************)
ConfirmItems == {"users", "orders"}

\* the rows under the cursors of the two tables
ConfirmRows == {<<"1", "p">>, <<"2", "q">>}

ConfirmCols == <<Column("A", 20), Column("C", 20)>>

ConfirmAliases == ("A" :> "x") @@ ("C" :> "y")

ConfirmToken == "u1"

\* the confirmation of one process: its position, the item and row it
\* confirms, the locals count, idItem and the loop index i, and its error
Confirm(item, row) ==
    [pc |-> "count", item |-> item, row |-> row, count |-> 0, idItem |-> 0,
     i |-> 0, err |-> "nil"]

ConfirmInit ==
    /\ dbs = Connections
    /\ items = {[id |-> 1, id_db |-> 1, name |-> "users"]}
    /\ config = {}
    /\ queries = {[id |-> 1, id_item |-> 1, name |-> "active_users",
                   query |-> BaseSQL,
                   config |-> [kind |-> "json", widths |-> NoWidths,
                               aliases |-> ConfirmAliases, height |-> 0],
                   height |-> {}]}
    /\ instance = {}
    /\ saved = SavedOf(instance)
    /\ pc = "api"
    /\ m = NoModel
    /\ nkeys = 0
    /\ ncalls = 0
    /\ ev = NoEvent
    /\ schema = SchemaObjects
    /\ procs \in [Procs -> {Confirm(item, row) :
                                item \in ConfirmItems, row \in ConfirmRows}]

\* the call returns err
Failed(c, err) == [c EXCEPT !.pc = "done", !.err = err]

\* the first column from i on that the loop writes (it is within the row
\* and its upper-cased title has an alias), 0 when there is none
NextWrite(row, cols, aliases, i) ==
    LET S == {j \in i..Len(cols) :
                 j <= Len(row) /\ ToUpper(cols[j].Title) \in DOMAIN aliases}
    IN  IF S = {} THEN 0 ELSE Min(S)

\* the position after the loop has passed column i
AfterColumn(c, i) ==
    LET j == NextWrite(c.row, ConfirmCols, ConfirmAliases, i + 1) IN
    IF j = 0 THEN [c EXCEPT !.pc = "save"] ELSE [c EXCEPT !.pc = "write", !.i = j]

\* line 507: SELECT COUNT(*) FROM items WHERE name = ?
ProcCount(p) ==
    /\ procs[p].pc = "count"
    /\ \E ok \in BOOLEAN :
          LET c == procs[p]
              n == Cardinality({r \in items : r.name = c.item})
          IN  procs' = [procs EXCEPT ![p] =
                          IF ~ok THEN Failed(c, ErrExec)
                          ELSE [c EXCEPT !.count = n,
                                         !.pc = IF n = 0 THEN "insert"
                                                ELSE "getid"]]
    /\ ev' = [NoEvent EXCEPT !.op = "count", !.result = p]
    /\ UNCHANGED <<store, saved, pc, m, nkeys, ncalls, schema>>

\* line 512: INSERT INTO items (name, id_db) VALUES (?, ?)
InsertItem(itms, item, idDB) ==
    itms \cup {[id |-> NextItemID(itms), id_db |-> idDB, name |-> item]}

\* lines 511-516: the INSERT of a call that counted 0
ProcInsert(p) ==
    /\ procs[p].pc = "insert"
    /\ \E ok \in BOOLEAN :
          LET c == procs[p] IN
          /\ items' = IF ok THEN InsertItem(items, c.item, 1) ELSE items
          /\ procs' = [procs EXCEPT ![p] =
                          IF ok THEN [c EXCEPT !.pc = "getid"]
                          ELSE Failed(c, ErrExec)]
    /\ ev' = [NoEvent EXCEPT !.op = "insert", !.result = p]
    /\ UNCHANGED <<dbs, config, queries, instance, saved, pc, m, nkeys, ncalls, schema>>

\* lines 555-558: GetItemID, then the loop runs up to its first write
ProcGetID(p) ==
    /\ procs[p].pc = "getid"
    /\ LET c == procs[p]
           id == GetItemID(items, c.item)
       IN  procs' = [procs EXCEPT ![p] =
                       IF id.err # "nil" THEN Failed(c, id.err)
                       ELSE AfterColumn([c EXCEPT !.idItem = id.val], 0)]
    /\ ev' = [NoEvent EXCEPT !.op = "getid", !.result = p]
    /\ UNCHANGED <<store, saved, pc, m, nkeys, ncalls, schema>>

\* lines 565-571: the INSERT OR REPLACE INTO config of column i
ProcWrite(p) ==
    /\ procs[p].pc = "write"
    /\ \E ok \in BOOLEAN :
          LET c == procs[p]
              row == ConfigRow(c.idItem, ConfirmToken,
                               ConfirmAliases[ToUpper(ConfirmCols[c.i].Title)],
                               c.row[c.i])
          IN  /\ config' = IF ok THEN InsertOrReplaceConfig(config, row)
                            ELSE config
              /\ procs' = [procs EXCEPT ![p] =
                              IF ok THEN AfterColumn(c, c.i)
                              ELSE Failed(c, ErrExec)]
    /\ ev' = [NoEvent EXCEPT !.op = "write", !.result = p]
    /\ UNCHANGED <<dbs, items, queries, instance, saved, pc, m, nkeys, ncalls, schema>>

\* model.go 206: SaveInstance with the digest of the row, under the token
ProcSave(p) ==
    /\ procs[p].pc = "save"
    /\ \E ok \in BOOLEAN :
          LET c == procs[p]
              s == SaveInstanceResult(instance, 1, RowHash(c.row),
                                      ConfirmToken, "", Blob(1), ok)
          IN  /\ instance' = s.instance
              /\ saved' = Remember(s, 1, RowHash(c.row), "")
              /\ procs' = [procs EXCEPT ![p] =
                              [c EXCEPT !.pc = "done", !.err = s.err]]
    /\ ev' = [NoEvent EXCEPT !.op = "save", !.result = p]
    /\ UNCHANGED <<dbs, items, config, queries, pc, m, nkeys, ncalls, schema>>

ConfirmNext ==
    \E p \in Procs :
       \/ ProcCount(p)
       \/ ProcInsert(p)
       \/ ProcGetID(p)
       \/ ProcWrite(p)
       \/ ProcSave(p)

SpecConfirm == ConfirmInit /\ [][ConfirmNext]_vars

(***************************************************************************)
(* The -args substitution of main on its own: the stored query text, the  *)
(* decoded JSON object, and the loop over the object's keys in one of the *)
(* orders a Go map iteration can take.                                     *)
(***************************************************************************)
RECURSIVE ReplaceAll(_, _, _)
\* strings.ReplaceAll for a non-empty old: non-overlapping matches from the
\* left
ReplaceAll(s, old, new) ==
    IF s = "" THEN ""
    ELSE IF HasPrefix(s, old)
    THEN new \o ReplaceAll(SubSeq(s, Len(old) + 1, Len(s)), old, new)
    ELSE CharAt(s, 1) \o ReplaceAll(Tail(s), old, new)

\* fmt.Sprintf("%v", v) on a decoded JSON value: a string as it is, a
\* whole number in decimal, null as <nil>
Sprintv(v) ==
    IF v.t = "null" THEN "<nil>"
    ELSE IF v.t = "text" THEN v.v
    ELSE ToString(v.v)

ArgKeys == {"a", "ab", "b"}

ArgValues == {TextVal("x"), IntVal(7), NullVal}

\* the objects the args file can hold
ArgObjects ==
    {d \in UNION {[K -> ArgValues] : K \in SUBSET ArgKeys} :
        Cardinality(DOMAIN d) <= 2}

ArgQueries ==
    {"SELECT 1", "SELECT :a", "SELECT :ab", "SELECT :a, :b", "SELECT :ab, :a"}

\* the orders in which range can visit the keys K
KeyOrders(K) ==
    {o \in [1..Cardinality(K) -> K] :
        \A i, j \in 1..Cardinality(K) : i # j => o[i] # o[j]}

RECURSIVE SubstituteArgs(_, _, _)
\* lines 135-138: the loop over the keys in order o
SubstituteArgs(sqlQuery, data, o) ==
    IF o = <<>> THEN sqlQuery
    ELSE SubstituteArgs(
             ReplaceAll(sqlQuery, ":" \o Head(o), Sprintv(data[Head(o)])),
             data, Tail(o))

ArgsInit ==
    /\ dbs = Connections
    /\ items = {[id |-> 1, id_db |-> 1, name |-> "users"]}
    /\ config = {}
    /\ \E q \in ArgQueries :
          /\ queries = {[id |-> 1, id_item |-> 1, name |-> "active_users",
                         query |-> q,
                         config |-> [kind |-> "null", widths |-> NoWidths,
                                     aliases |-> NoAliases, height |-> 0],
                         height |-> {}]}
          /\ m = [NoModel EXCEPT !.sqlQuery = q]
          /\ \E data \in ArgObjects :
                ev = [NoEvent EXCEPT !.op = "decode", !.query = q,
                                     !.result = data]
    /\ instance = {}
    /\ saved = SavedOf(instance)
    /\ pc = "args"
    /\ nkeys = 0
    /\ ncalls = 0
    /\ procs = <<>>
    /\ schema = SchemaObjects

\* main, lines 124-140, past the decoding of the file
MainArgs ==
    /\ pc = "args"
    /\ \E o \in KeyOrders(DOMAIN ev.result) :
          m' = [m EXCEPT !.sqlQuery = SubstituteArgs(m.sqlQuery, ev.result, o)]
    /\ ev' = [ev EXCEPT !.op = "args"]
    /\ pc' = "substituted"
    /\ UNCHANGED <<store, saved, nkeys, ncalls, procs, schema>>

SpecArgs == ArgsInit /\ [][MainArgs]_vars

(***************************************************************************)
(* config.Init called on a store file that holds any of the tables: a new *)
(* file, the file of an earlier run or of an earlier version of tel, or a *)
(* file whose catalog tables were provisioned by hand.                     *)
(***************************************************************************)
SchemaInit ==
    /\ dbs = {}
    /\ items = {}
    /\ config = {}
    /\ queries = {}
    /\ instance = {}
    /\ saved = SavedOf(instance)
    /\ pc = "api"
    /\ m = NoModel
    /\ nkeys = 0
    /\ ncalls = 0
    /\ ev = NoEvent
    /\ procs = <<>>
    /\ schema \in {sch \in SUBSET SchemaObjects :
                       "generate_uuid_trigger" \in sch => "instance" \in sch}

\* one call of Init; GetDBPath and sql.Open succeed
CallInit ==
    /\ pc = "api"
    /\ ncalls < MaxCalls
    /\ \E failAt \in 0..Len(DDL) :
          /\ schema' = InitDDL(schema, failAt)
          /\ ev' = [NoEvent EXCEPT !.op = "Init", !.result = failAt]
    /\ ncalls' = ncalls + 1
    /\ UNCHANGED <<store, saved, pc, m, nkeys, procs>>

SpecSchema == SchemaInit /\ [][CallInit]_vars

(***************************************************************************)
(* Properties.                                                             *)
(***************************************************************************)
Keys(inst) == {<<r.uid, r.id_query>> : r \in inst}

\* C1: after any sequence of SaveInstance calls the instance table holds
\* exactly one row for every (token, query id) key that was written, and no
\* other row: a call on a key that has a row replaces that row, with the
\* values of the call.
C1_OneRowPerKey ==
    /\ \A k \in DOMAIN saved :
          Cardinality(InstanceRows(instance, k[1], k[2])) = 1
    /\ Cardinality(instance) = Cardinality(DOMAIN saved)
    /\ (ev.op = "SaveInstance" /\ ev.saveErr = "nil")
          => InstanceRows(instance, ev.uid, ev.idQuery)
                = {InstanceRow(ev.uid, ev.idQuery, ev.hash, ev.filter)}

\* a second successful call with the same explicit token and query id has
\* just returned, with other values than the first, next to another key
C1_Witness ==
    /\ ev.op = "SaveInstance"
    /\ ev.saveErr = "nil"
    /\ ev.given # ""
    /\ <<ev.given, ev.idQuery>> \in DOMAIN saved
    /\ saved[<<ev.given, ev.idQuery>>].n = 2
    /\ Cardinality(instance) = 2

ExpectedLookup(t, q, field) ==
    IF <<t, q>> \in DOMAIN saved
    THEN [val |-> saved[<<t, q>>][field], err |-> "nil"]
    ELSE [val |-> "", err |-> ErrNoRows]

\* C2: for every token t and query id q, GetHashByUID(t, q) and
\* GetFilterByUID(t, q) return the digest and the filter text of the last
\* successful SaveInstance for (t, q), and fail with sql.ErrNoRows when
\* there was none; so a save for another key changes neither.
C2_LookupsReturnLastSave ==
    /\ \A t \in AllTokens \cup {""}, q \in QueryIDs :
          /\ GetHashByUID(instance, t, q) = ExpectedLookup(t, q, "hash")
          /\ GetFilterByUID(instance, t, q) = ExpectedLookup(t, q, "filter")
    /\ ev.op = "Lookup"
          => /\ [val |-> ev.hash, err |-> ev.err]
                   = ExpectedLookup(ev.given, ev.idQuery, "hash")
             /\ [val |-> ev.filter, err |-> ev.saveErr]
                   = ExpectedLookup(ev.given, ev.idQuery, "filter")

\* a lookup returned the values of the second save of its key, the filter
\* text being empty, while another key holds another digest and a third key
\* was never written
C2_Witness ==
    /\ ev.op = "Lookup"
    /\ ev.err = "nil"
    /\ ev.filter = ""
    /\ saved[<<ev.given, ev.idQuery>>].n = 2
    /\ \E k \in DOMAIN saved : saved[k].hash # ev.hash
    /\ \E t \in AllTokens, q \in QueryIDs : <<t, q>> \notin DOMAIN saved

LowerHex == {CharAt("0123456789abcdef", i) : i \in 1..16}

\* 8-4-4-4-12 lower-case hex digits
IsCanonicalToken(t) ==
    /\ Len(t) = 36
    /\ \A i \in 1..36 :
          IF i \in {9, 14, 19, 24} THEN CharAt(t, i) = "-"
          ELSE CharAt(t, i) \in LowerHex

\* C3: a SaveInstance call that returns without error and was given the
\* empty token returns a token of the form 8-4-4-4-12 lower-case hex digits
\* and has stored its row under exactly that token; given a non-empty
\* token it returns that token.
C3_EffectiveToken ==
    (ev.op = "SaveInstance" /\ ev.saveErr = "nil")
       => /\ ev.given = ""
             => /\ IsCanonicalToken(ev.uid)
                /\ InstanceRow(ev.uid, ev.idQuery, ev.hash, ev.filter)
                      \in instance
                /\ \A r \in instance : r.uid # ""
          /\ ev.given # "" => ev.uid = ev.given

\* a call with the empty token has returned without error
C3_Witness ==
    /\ ev.op = "SaveInstance"
    /\ ev.saveErr = "nil"
    /\ ev.given = ""
    /\ ev.uid # ""

\* C4: in every state of the running program exactly one of the table and
\* the text input has focus (tab and esc swap which one).
C4_ExactlyOneFocus ==
    pc = "running" => (m.tableFocus # m.inputFocus)

\* the program is at its first render, started with a uid and no filter flag
ResumedNoFilterFlag ==
    pc = "running" /\ ev.op = "main" /\ ev.uid # "" /\ ev.filter = ""

\* the filter texts stored for the run's (uid, query), the empty one aside
StoredFilters ==
    {r.filter : r \in {x \in InstanceRows(instance, m.uid, m.idQuery) :
                          x.filter # ""}}

\* the base query b with predicate f applied by the backend
Filtered(b, f) == GetContent("SELECT * FROM (" \o b \o ") WHERE " \o f)

\* C5, as claimed: started with a uid and no filter flag, a stored non-empty
\* filter f that the backend accepts makes the rows at first render the
\* result of the base query filtered by f.
C5_StoredFilterAlwaysShown ==
    ResumedNoFilterFlag
       => \A f \in StoredFilters :
             Filtered(m.sqlQuery, f).err = "nil"
                => m.rows = Filtered(m.sqlQuery, f).rows

\* C5, amended: the rows at first render are the result of the base query
\* filtered by f when that query runs without error and yields at least one
\* row; otherwise they are the rows of the base query itself.
C5_StoredFilterShownWhenRows ==
    ResumedNoFilterFlag
       => \A f \in StoredFilters :
             LET r == Filtered(m.sqlQuery, f) IN
             /\ m.inputValue = f
             /\ m.rows = IF r.err = "nil" /\ Len(r.rows) > 0 THEN r.rows
                         ELSE GetContent(m.sqlQuery).rows

\* a resumed run shows fewer rows than the base query has: those of the
\* stored filter
C5_Witness ==
    /\ ResumedNoFilterFlag
    /\ \E f \in StoredFilters :
          /\ m.rows = Filtered(m.sqlQuery, f).rows
          /\ Len(m.rows) < Len(GetContent(m.sqlQuery).rows)

\* the rows of the displayed table whose digest is d
RowsWithDigest(d) == {i \in 1..Len(m.rows) : RowHash(m.rows[i]) = d}

\* C6: at the first render of a run started with a uid, the cursor is on
\* the first displayed row whose digest is the one stored for (uid, query);
\* it is on the first row when no displayed row has that digest or nothing
\* is stored for (uid, query).
C6_CursorOnStoredRow ==
    (pc = "running" /\ ev.op = "main" /\ ev.uid # "")
       => LET found == InstanceRows(instance, ev.uid, m.idQuery) IN
          IF found # {} /\ \E r \in found : RowsWithDigest(r.hash) # {}
          THEN \E r \in found : m.cursor + 1 = Min(RowsWithDigest(r.hash))
          ELSE m.cursor = 0

\* the run resumed on a row that is not the first one displayed and that
\* has a later duplicate
C6_Witness ==
    /\ pc = "running" /\ ev.op = "main" /\ ev.uid # ""
    /\ m.cursor > 0
    /\ \E r \in InstanceRows(instance, ev.uid, m.idQuery) :
          /\ m.cursor + 1 \in RowsWithDigest(r.hash)
          /\ Cardinality(RowsWithDigest(r.hash)) > 1

\* the columns of the displayed table whose upper-cased title has an alias
AliasedColumns(mdl) ==
    {i \in 1..Len(mdl.cols) : ToUpper(mdl.cols[i].Title) \in DOMAIN mdl.aliases}

\* the row under the cursor, <<>> when there is none
CursorRow(mdl) ==
    IF mdl.cursor >= 0 /\ mdl.cursor < Len(mdl.rows)
    THEN mdl.rows[mdl.cursor + 1] ELSE <<>>

\* a row confirmation under token m.uid on a selected row went through
ConfirmedRow ==
    /\ ev.op = "enter-table" /\ ev.err = "nil" /\ ev.saveErr = "nil"
    /\ m.uid # ""
    /\ CursorRow(m) # <<>>

\* C7: a successful enter on the table under session token t writes, for
\* every displayed column whose upper-cased title has an alias a, the config
\* row (item id, t, a) holding the selected row's cell of that column (the
\* row is in the table afterwards unless a later column with the same alias
\* wrote over it), writes no other config row, and writes the instance row
\* (t, query id) with the digest of the selected row and the text of the
\* filter input.
C7_RowConfirmation ==
    [][ConfirmedRow'
         => LET idItem == GetItemID(items', m'.itemName).val
                row == CursorRow(m')
                alias(i) == m'.aliases[ToUpper(m'.cols[i].Title)]
                write(i) == ConfigRow(idItem, m'.uid, alias(i), row[i])
                written == {write(i) : i \in AliasedColumns(m')}
            IN  /\ \A i \in AliasedColumns(m') :
                      \/ write(i) \in config'
                      \/ \E j \in AliasedColumns(m') : j > i /\ alias(j) = alias(i)
                /\ config' \ config \subseteq written
                /\ \A r \in config \ config' :
                      \E w \in written :
                         /\ w.id_item = r.id_item
                         /\ w.uid = r.uid
                         /\ w.var = r.var
                /\ InstanceRows(instance', m'.uid, m'.idQuery)
                      = {InstanceRow(m'.uid, m'.idQuery,
                                     "sha256:" \o Join(row, "|"),
                                     m'.inputValue)}]_vars

\* the row <<"1", "">> was confirmed on a table with a column that has an
\* alias and one that has none, the key (t, query id) having been written
\* before
C7_Witness ==
    /\ ConfirmedRow
    /\ AliasedColumns(m) # {}
    /\ AliasedColumns(m) # 1..Len(m.cols)
    /\ saved[<<m.uid, m.idQuery>>].n >= 2
    /\ saved[<<m.uid, m.idQuery>>].hash = "sha256:1|"
    /\ \E r \in config : r.val = "1"

\* an enter on the filter input went through
FilterCommitted ==
    ev.op = "enter-filter" /\ ev.err = "nil" /\ ev.saveErr = "nil"

Titles(cols) == [i \in 1..Len(cols) |-> cols[i].Title]

\* C8: a successful enter on the filter input replaces the displayed rows
\* and columns by the result of the filtered query and writes the instance
\* row (token, query id) with the digest of the row that is selected after
\* the replacement and the committed filter text.
C8_FilterCommit ==
    FilterCommitted
       => LET p == TrimSpace(ev.filter)
              r == IF p = "" THEN GetContent(m.sqlQuery)
                   ELSE Filtered(m.sqlQuery, p)
          IN  /\ r.err = "nil"
              /\ m.rows = r.rows
              /\ Titles(m.cols) = Titles(r.cols)
              /\ ev.filter = m.inputValue
              /\ ev.given # "" => ev.uid = ev.given
              /\ InstanceRows(instance, ev.uid, m.idQuery)
                    = {InstanceRow(ev.uid, m.idQuery,
                                   "sha256:" \o Join(CursorRow(m), "|"),
                                   ev.filter)}

\* a filter that keeps some rows and drops others was committed
C8_Witness ==
    /\ FilterCommitted
    /\ ev.filter # ""
    /\ Len(m.rows) > 0
    /\ Len(m.rows) < Len(GetContent(m.sqlQuery).rows)

\* C9: when an enter on the filter input fails, the displayed rows, columns
\* and cursor, the focus, the instance table and the config table are what
\* they were, and the program goes on taking key events.
C9_FilterErrorKeepsState ==
    [][(ev'.op = "enter-filter" /\ ev'.err # "nil")
         => /\ m'.rows = m.rows
            /\ m'.cols = m.cols
            /\ m'.cursor = m.cursor
            /\ m'.tableFocus = m.tableFocus
            /\ m'.inputFocus = m.inputFocus
            /\ instance' = instance
            /\ config' = config
            /\ pc' = "running"]_vars

\* an enter on the filter input has failed on a table that shows rows
C9_Witness ==
    /\ ev.op = "enter-filter"
    /\ ev.err # "nil"
    /\ pc = "running"
    /\ Len(m.rows) > 0

IsWordChar(c) ==
    \/ IndexOf(c, Lowers, 1) # 0
    \/ IndexOf(c, Uppers, 1) # 0
    \/ IndexOf(c, "0123456789_", 1) # 0

\* the predicate of filter text f when WHERE is dropped as a whole word
WholeWordPredicate(f) ==
    LET t == TrimSpace(f) IN
    IF HasPrefix(t, "WHERE") /\ (Len(t) = 5 \/ ~IsWordChar(CharAt(t, 6)))
    THEN TrimSpace(SubSeq(t, 6, Len(t)))
    ELSE t

\* C10, as claimed: with p the filter text trimmed, a leading whole word
\* WHERE dropped and trimmed again, the query executed is b when p is empty
\* and "SELECT * FROM (b) WHERE p" otherwise.
C10_WholeWordWhere ==
    ev.op = "enter-filter"
       => ev.query = IF WholeWordPredicate(ev.filter) = "" THEN m.sqlQuery
                     ELSE "SELECT * FROM (" \o m.sqlQuery \o ") WHERE "
                          \o WholeWordPredicate(ev.filter)

\* the display of a run of the same item and query started without filter
\* and without uid, on the store as it is
StartDisplay ==
    Startup([item |-> m.itemName, sql |-> m.sqlName, db |-> "analytics",
             filter |-> "", uid |-> ""], TRUE).m

\* C11, as claimed: committing the empty filter shows the same rows and the
\* same columns, titles and widths, as the startup display of a run that is
\* given no filter.
C11_EmptyFilterIsStartup ==
    (ev.op = "enter-filter" /\ ev.err = "nil" /\ ev.filter = "")
       => /\ m.rows = StartDisplay.rows
          /\ m.cols = StartDisplay.cols

\* the name a width is stored under for a column titled title
CanonicalName(title, aliases) ==
    IF ToUpper(title) \in DOMAIN aliases THEN aliases[ToUpper(title)]
    ELSE ToUpper(title)

\* C12, as claimed: every displayed column has the width stored under its
\* canonical display name (the alias of its upper-cased name when there is
\* one, the upper-cased name otherwise), and width 20 when none is stored.
C12_WidthByCanonicalName ==
    pc = "running"
       => LET cfg == GetQueryConfig(m.sqlName) IN
          \A i \in 1..Len(m.cols) :
             LET name == CanonicalName(m.cols[i].Title, cfg.aliases) IN
             m.cols[i].Width = IF name \in DOMAIN cfg.widths
                               THEN cfg.widths[name] ELSE 20

\* the row of the queries table named name
QueryRow(name) == CHOOSE r \in queries : r.name = name

\* the value of COALESCE(height, 10) for the stored height h
StoredHeight(h) == IF h = {} THEN 10 ELSE CHOOSE x \in h : TRUE

\* C13: GetQueryConfig on a stored query returns an error and no maps when
\* the stored config does not parse; empty maps and the stored height (10
\* for NULL) when the config is NULL or the empty string; and for a config
\* that parses its widths and aliases, with the config's height when that
\* is not 0 and the stored height otherwise.
C13_GetQueryConfig ==
    (ev.op = "GetQueryConfig" /\ \E r \in queries : r.name = ev.given)
       => LET q == QueryRow(ev.given)
              r == ev.result
          IN  /\ q.config.kind = "malformed"
                    => /\ r.err # "nil"
                       /\ DOMAIN r.widths = {} /\ DOMAIN r.aliases = {}
              /\ q.config.kind \in {"null", "empty"}
                    => /\ r.err = "nil"
                       /\ DOMAIN r.widths = {} /\ DOMAIN r.aliases = {}
                       /\ r.height = StoredHeight(q.height)
              /\ q.config.kind = "json"
                    => /\ r.err = "nil"
                       /\ r.widths = q.config.widths
                       /\ r.aliases = q.config.aliases
                       /\ r.height = IF q.config.height # 0
                                     THEN q.config.height
                                     ELSE StoredHeight(q.height)

\* the lookup returned the stored height 5 for a config that parses, holds
\* widths and has no height of its own
C13_Witness ==
    /\ ev.op = "GetQueryConfig"
    /\ ev.given = "active_users"
    /\ QueryRow(ev.given).config.kind = "json"
    /\ QueryRow(ev.given).config.height = 0
    /\ QueryRow(ev.given).height = {5}
    /\ ev.result.height = 5
    /\ DOMAIN ev.result.widths # {}

\* a commit of either kind stored the digest of a selected row
CommittedRow ==
    /\ ev.op \in {"enter-filter", "enter-table"}
    /\ ev.err = "nil" /\ ev.saveErr = "nil"
    /\ CursorRow(m) # <<>>

\* C14: the digest a filter commit or a row confirmation stores is the
\* same function of the selected row's ordered cells, and it is the one
\* SelectRowByHash computes: searching the displayed rows for the stored
\* digest stops at a row with the cells of the row that was committed.
C14_SameDigestEverywhere ==
    CommittedRow
       => /\ ev.hash = "sha256:" \o Join(CursorRow(m), "|")
          /\ InstanceRows(instance, ev.uid, m.idQuery)
                = {InstanceRow(ev.uid, m.idQuery, ev.hash, ev.filter)}
          /\ CursorRow(SelectRowByHash([m EXCEPT !.cursor = 0], ev.hash))
                = CursorRow(m)

\* a resumed run confirmed a row that is not the first one displayed
C14_Witness ==
    /\ CommittedRow
    /\ ev.op = "enter-table"
    /\ m.cursor > 0
    /\ CursorRow(m) # m.rows[1]
    /\ saved[<<ev.uid, m.idQuery>>].n >= 2

\* C15, as claimed: the separator does not occur inside cells, so a
\* displayed row whose cells differ from those of the confirmed row never
\* has the digest that the confirmation stored.
C15_DistinctRowsDistinctDigests ==
    (ev.op = "enter-table" /\ ev.err = "nil" /\ ev.saveErr = "nil")
       => \A i \in 1..Len(m.rows) :
             m.rows[i] # CursorRow(m)
                => "sha256:" \o Join(m.rows[i], "|") # ev.hash

\* C16, as claimed: a run started with an item name that the catalog does
\* not hold, everything else being in order, reaches the interaction loop.
C16_UnknownItemRuns ==
    (/\ ev.op = "main"
     /\ ev.item # "" /\ ev.item \notin {r.name : r \in items}
     /\ ev.sql = "active_users" /\ ev.db = "analytics" /\ ev.conn
     /\ QueryRow(ev.sql).config.kind # "malformed")
       => pc = "running"

\* what the claim lists for a run with selectors and connection result e
\* on the catalog as it is
StartConditions(e) ==
    /\ e.item # "" /\ e.sql # "" /\ e.db # ""
    /\ \E r \in dbs : r.name = e.db
    /\ \E r \in items : r.name = e.item
    /\ \E r \in queries : r.name = e.sql
    /\ QueryRow(e.sql).config.kind # "malformed"
    /\ e.conn
    /\ LET r == BackendQuery(QueryRow(e.sql).query) IN
       r.err = "nil" /\ Len(r.rows) > 0 /\ Len(r.cols) > 0

\* C18: the step out of the start enters the interaction loop exactly when
\* the three selectors are set, the connection, item and query names are in
\* the catalog, the display config parses, the backend connects and the
\* base query returns a row and a column; otherwise it ends the process
\* with exit code 1, no key taken, the items, config and instance tables
\* as they were, and the process takes no step after that.
C18_LoopOnlyAfterStartupChecks ==
    [][/\ pc # "exit1"
       /\ pc = "start"
             => IF StartConditions(ev')
                THEN pc' = "running"
                ELSE /\ pc' = "exit1"
                     /\ nkeys' = 0
                     /\ items' = items
                     /\ config' = config
                     /\ instance' = instance]_vars

\* a run on the query without rows, given a uid, has exited with code 1
\* while a Session Instance of that uid is stored
C18_Witness ==
    /\ pc = "exit1"
    /\ ev.op = "main"
    /\ ev.sql = "no_users"
    /\ ev.conn
    /\ instance # {}

\* C17: every call of InsertItemIfNotExists leaves at most one Item per
\* name; a call for a name that has an Item leaves the items table as it
\* was, owning connection included; a successful call for a new name adds
\* the one Item of that name, owned by the connection given, and touches
\* no other Item.
C17_ItemCreatedOnce ==
    [][ev'.op = "InsertItemIfNotExists"
         => /\ \A n \in ItemNames :
                  Cardinality({r \in items' : r.name = n}) <= 1
            /\ (\E r \in items : r.name = ev'.item) => items' = items
            /\ (ev'.err = "nil" /\ ~\E r \in items : r.name = ev'.item)
                  => /\ items \subseteq items'
                     /\ \E r \in items' \ items :
                           /\ items' = items \cup {r}
                           /\ r.name = ev'.item
                           /\ r.id_db = ev'.result
                           /\ r.id \notin {x.id : x \in items}]_vars

\* a call for an Item that exists under connection 1 was made with
\* connection 2, three Items being stored
C17_Witness ==
    /\ ev.op = "InsertItemIfNotExists"
    /\ ev.err = "nil"
    /\ ev.result = 2
    /\ \E r \in items : r.name = ev.item /\ r.id_db = 1 /\ r.id > 1
    /\ Cardinality(items) = 3

\* a SaveInstance call given the empty token has returned a fresh token
Allocated ==
    ev.op = "SaveInstance" /\ ev.given = "" /\ ev.saveErr = "nil"

SameKeyCalls ==
    /\ procs[1].providedUID # ""
    /\ procs[1].providedUID = procs[2].providedUID
    /\ procs[1].idQuery = procs[2].idQuery

\* C20: when two processes call SaveInstance with the same token and query
\* id, in every interleaving the key never has more than one row, and once
\* both calls have returned the row is the whole (digest, filter text) pair
\* of a call that returned without error, provided one did; when both
\* returned an error the key holds what was stored before the calls.
C20_ConcurrentSameKey ==
    SameKeyCalls
       => LET t == procs[1].providedUID
              q == procs[1].idQuery
              rows == InstanceRows(instance, t, q)
              won == {p \in Procs : procs[p].pc = "done" /\ procs[p].err = "nil"}
          IN  /\ Cardinality(rows) <= 1
              /\ won # {}
                    => \E p \in won :
                          rows = {InstanceRow(t, q, procs[p].hash,
                                              procs[p].filter)}
              /\ (won = {} /\ \A p \in Procs : procs[p].pc = "done")
                    => rows \subseteq {InstanceRow(t, q, "sha256:7|", "c")}

\* both calls have returned without error, having passed different digests
\* and different filter texts for a key that had a row
C20_Witness ==
    /\ SameKeyCalls
    /\ \A p \in Procs : procs[p].pc = "done" /\ procs[p].err = "nil"
    /\ procs[1].hash # procs[2].hash
    /\ procs[1].filter # procs[2].filter
    /\ saved[<<procs[1].providedUID, procs[1].idQuery>>].n = 3

\* C21: no step of a run, whatever key it handles and whatever store or
\* column-config operation that key leads to, inserts, updates or deletes a
\* Connection or a Query Definition: the dbs and queries tables stay what
\* they were at startup.
C21_CatalogReadOnly ==
    [][dbs' = dbs /\ queries' = queries]_vars

\* a run started without a uid has taken MaxKeys keys, among them a row
\* confirmation that wrote Column Config and a Session Instance, and quit
C21_Witness ==
    /\ pc = "exit0"
    /\ nkeys = MaxKeys
    /\ \E k \in DOMAIN saved : saved[k].n >= 1 /\ k[1] \notin OldTokens
    /\ config # {}

\* the Session Instance rows of the run's query that the run itself wrote:
\* the store held only rows of OldTokens when the run started
CreatedRows ==
    {r \in instance : r.id_query = m.idQuery /\ r.uid \notin OldTokens}

\* C22, as claimed: in a run started without a uid every commit after the
\* first uses the token the first commit allocated, so the run has created
\* at most one Session Instance row for its query.
C22_OneTokenPerRun ==
    (pc \in {"running", "exit0"} /\ m.uid = "")
       => Cardinality(CreatedRows) <= 1

\* C23, as claimed: a row confirmation that went through has written the
\* Column Config entry of every aliased column under the token of the
\* Session Instance it wrote, also in a run started without a uid.
C23_ConfigUnderInstanceToken ==
    (ev.op = "enter-table" /\ ev.err = "nil" /\ ev.saveErr = "nil"
        /\ CursorRow(m) # <<>>)
       => /\ InstanceRows(instance, ev.uid, m.idQuery) # {}
          /\ \A i \in AliasedColumns(m) :
                \E r \in config :
                   /\ r.uid = ev.uid
                   /\ r.var = m.aliases[ToUpper(m.cols[i].Title)]

\* C24, as claimed: the filter text a row confirmation records is the
\* filter that produced the displayed rows: unless it is the initial filter
\* of the run, the displayed rows are the result of the query filtered by
\* it, as a commit of that text left them.
C24_RecordedFilterIsDisplayed ==
    (ev.op = "enter-table" /\ ev.err = "nil" /\ ev.saveErr = "nil")
       => \/ ev.filter = m.initialFilter
          \/ LET r == FilterContent(m, ev.filter) IN
             r.err = "nil" /\ r.rows = m.rows

\* C25, as claimed: a row confirmation whose SaveConfigFromTable returns an
\* error leaves the config table as it was: no column of the confirmed row
\* is persisted.
C25_FailedConfigWritesNothing ==
    [][(ev'.op = "enter-table" /\ ev'.err # "nil") => config' = config]_vars

\* C26: on a row confirmation the Session Instance is written only after
\* every Column Config write of that confirmation succeeded: when persisting
\* Column Config fails, the instance table is what it was, and when the
\* instance table changes, the config table holds an entry for every
\* aliased column of the confirmed row.
C26_InstanceAfterConfig ==
    [][ev'.op = "enter-table"
         => /\ ev'.err # "nil" => instance' = instance
            /\ instance' # instance
                  => /\ ev'.err = "nil"
                     /\ \A i \in AliasedColumns(m) :
                           i <= Len(CursorRow(m))
                              => \E r \in config' :
                                    /\ r.uid = m.uid
                                    /\ r.var = m.aliases[ToUpper(m.cols[i].Title)]]_vars

\* a row confirmation has failed after it wrote a column, next to a stored
\* Session Instance of the run's token and query
C26_Witness ==
    /\ ev.op = "enter-table"
    /\ ev.err # "nil"
    /\ \E r \in config : r.uid = m.uid
    /\ m.uid # ""
    /\ InstanceRows(instance, m.uid, m.idQuery) # {}
    /\ \A r \in InstanceRows(instance, m.uid, m.idQuery) : r.hash # ev.hash

\* C27, as claimed: once two concurrent calls of InsertItemIfNotExists for
\* the same name, which had no Item, have both returned without error,
\* exactly one Item row has that name.
C27_ConcurrentInsertOneItem ==
    (/\ procs[1].item = procs[2].item
     /\ procs[1].item # "users"
     /\ \A p \in Procs :
           procs[p].pc \notin {"count", "insert"} /\ procs[p].err = "nil")
       => Cardinality({r \in items : r.name = procs[1].item}) = 1

\* the Column Config entries and the digest that the confirmation of
\* process p writes when it runs alone
ConfigOf(p) ==
    {ConfigRow(procs[p].idItem, ConfirmToken, "x", procs[p].row[1]),
     ConfigRow(procs[p].idItem, ConfirmToken, "y", procs[p].row[2])}

\* C28, as claimed: once two concurrent row confirmations for the same
\* item, token and query on different rows have both gone through, the
\* Column Config entries of (item, token) and the digest of (token, query)
\* all derive from the row of one of the two.
C28_ConcurrentConfirmOneRow ==
    (/\ procs[1].item = procs[2].item
     /\ procs[1].row # procs[2].row
     /\ \A p \in Procs : procs[p].pc = "done" /\ procs[p].err = "nil")
       => \E p \in Procs :
             /\ {r \in config : r.uid = ConfirmToken} = ConfigOf(p)
             /\ InstanceRows(instance, ConfirmToken, 1)
                   = {InstanceRow(ConfirmToken, 1, RowHash(procs[p].row), "")}

\* C29, as claimed: the query text the substitution yields is the same for
\* every order in which the keys of the args object are processed, also
\* when one key is a prefix of another.
C29_OrderIndependent ==
    ev.op = "args"
       => \A o \in KeyOrders(DOMAIN ev.result) :
             SubstituteArgs(ev.query, ev.result, o) = m.sqlQuery

\* C30, as claimed: after Init has returned without error, every table of
\* the persisted schema exists in the store, whichever of them the file
\* held before the call and no statement failing for a reason of its own.
C30_AllTablesAfterInit ==
    (ev.op = "Init" /\ ev.err = "nil" /\ ev.result = 0)
       => Tables \subseteq schema

====
